---- MODULE Spec2Model ----
(***************************************************************************)
(* A model of yacs/config.py: the CfgNode configuration tree, its merge    *)
(* engine (_merge_a_into_b, merge_from_list), the value decoder, the type  *)
(* reconciler and the freeze/defrost switch.                               *)
(*                                                                         *)
(* Python objects: every CfgNode that is stored in a tree is an object of  *)
(* the heap (a reference [t |-> "CfgNode", id |-> i]); a CfgNode that has  *)
(* just been constructed and is referenced by nobody else is a value       *)
(* [t |-> "CfgNode", imm, dep, ren, items] until it is stored.  A dict or  *)
(* CfgNode keeps its items in insertion order: a sequence of <<key,        *)
(* value>> pairs with distinct keys.                                       *)
(***************************************************************************)
EXTENDS Integers, Sequences, FiniteSets, TLC

VARIABLES heap, other, last, frozen, steps

vars == <<heap, other, last, frozen, steps>>

-----------------------------------------------------------------------------
(* Python values *)

PyInt(n) == [t |-> "int", n |-> n]
PyBool(b) == [t |-> "bool", b |-> b]
\* a float, held in tenths: PyFloat(15) is 1.5
PyFloat(f) == [t |-> "float", f |-> f]
PyNone == [t |-> "NoneType"]
PyStr(s) == [t |-> "str", s |-> s]
PyList(l) == [t |-> "list", l |-> l]
PyTuple(u) == [t |-> "tuple", u |-> u]
NdArray(dtype, data) == [t |-> "ndarray", dtype |-> dtype, data |-> data]
PyDict(items) == [t |-> "dict", items |-> items]
Ref(i) == [t |-> "CfgNode", id |-> i]

\* the dicts {k: v} and {k: v, l: w}
D1(k, v) == PyDict(<< <<k, v>> >>)

D2(k, v, l, w) == PyDict(<< <<k, v>>, <<l, w>> >>)

NoRenames == [k \in {} |-> ""]

\* CfgNode.__init__: the items given, not frozen, both registries empty
CfgNode(items) ==
  [t |-> "CfgNode", imm |-> FALSE, dep |-> {}, ren |-> NoRenames, items |-> items]

Err(exc, msg, key) == [t |-> "error", exc |-> exc, msg |-> msg, key |-> key]

IsErr(v) == v.t = "error"

IsRef(v) == v.t = "CfgNode" /\ "id" \in DOMAIN v

IsSeqVal(v) == v.t \in {"list", "tuple"}

Elems(v) == IF v.t = "list" THEN v.l ELSE v.u

-----------------------------------------------------------------------------
(* str() and repr() of the values, and literal_eval on the strings used *)

Digit(d) ==
  CASE d = 0 -> "0" [] d = 1 -> "1" [] d = 2 -> "2" [] d = 3 -> "3"
    [] d = 4 -> "4" [] d = 5 -> "5" [] d = 6 -> "6" [] d = 7 -> "7"
    [] d = 8 -> "8" [] d = 9 -> "9"

RECURSIVE IntStr(_)
IntStr(n) ==
  IF n < 0 THEN "-" \o IntStr(0 - n)
  ELSE IF n < 10 THEN Digit(n)
  ELSE IntStr(n \div 10) \o Digit(n % 10)

FloatStr(f) == IntStr(f \div 10) \o "." \o Digit(f % 10)

RECURSIVE Repr(_)
RECURSIVE JoinRepr(_)
RECURSIVE ItemsRepr(_)
\* ", ".join(repr(e) for e in s)
JoinRepr(s) ==
  IF s = <<>> THEN ""
  ELSE IF Len(s) = 1 THEN Repr(s[1])
  ELSE Repr(s[1]) \o ", " \o JoinRepr(Tail(s))

ItemsRepr(items) ==
  IF items = <<>> THEN ""
  ELSE LET one == "'" \o items[1][1] \o "': " \o Repr(items[1][2])
       IN  IF Len(items) = 1 THEN one ELSE one \o ", " \o ItemsRepr(Tail(items))

Repr(v) ==
  CASE v.t = "int" -> IntStr(v.n)
    [] v.t = "bool" -> IF v.b THEN "True" ELSE "False"
    [] v.t = "float" -> FloatStr(v.f)
    [] v.t = "NoneType" -> "None"
    [] v.t = "str" -> "'" \o v.s \o "'"
    [] v.t = "list" -> "[" \o JoinRepr(v.l) \o "]"
    [] v.t = "tuple" ->
         IF Len(v.u) = 1 THEN "(" \o Repr(v.u[1]) \o ",)"
         ELSE "(" \o JoinRepr(v.u) \o ")"
    [] v.t = "ndarray" -> "array(" \o Repr(v.data) \o ")"
    [] v.t \in {"dict", "CfgNode"} -> "{" \o ItemsRepr(v.items) \o "}"

\* str(v): a string is itself, every other value prints as its repr
StrOf(v) == IF v.t = "str" THEN v.s ELSE Repr(v)

\* The literals the strings of the model can spell
LitInts == {1, 2, 3, 4, 5, 123}

LitScalars ==
  {PyInt(n) : n \in LitInts} \cup {PyBool(TRUE), PyBool(FALSE), PyNone, PyFloat(15)}
    \cup {PyStr("abc"), PyStr("xyz"), PyStr("123")}

LitSeqs ==
  {<<>>} \cup {<<PyInt(a)>> : a \in {1, 3}} \cup {<<PyInt(3), PyInt(4)>>, <<PyInt(1), PyInt(2)>>}

Literals ==
  LitScalars \cup {PyList(s) : s \in LitSeqs} \cup {PyTuple(s) : s \in LitSeqs}
    \cup {PyDict(<<<<"B", PyInt(5)>>>>)}

\* ast.literal_eval: the literal a string spells, or ValueError / SyntaxError
literal_eval(s) ==
  IF \E v \in Literals : Repr(v) = s
  THEN CHOOSE v \in Literals : Repr(v) = s
  ELSE Err("ValueError", "malformed node or string", s)

-----------------------------------------------------------------------------
(* _decode_cfg_value *)

_decode_cfg_value(v) ==
  IF v.t \in {"dict", "CfgNode"} THEN CfgNode(v.items)
  ELSE IF v.t # "str" THEN v
  ELSE LET e == literal_eval(v.s) IN IF IsErr(e) THEN v ELSE e

-----------------------------------------------------------------------------
(* _check_and_coerce_cfg_value_type *)

\* np.array(value, dtype=dtype): numbers and sequences of numbers convert,
\* anything else makes numpy raise
NumCast(x, dtype) ==
  LET asInt == CASE x.t = "int" -> x.n [] x.t = "bool" -> (IF x.b THEN 1 ELSE 0)
                 [] x.t = "float" -> x.f \div 10
      asTenths == CASE x.t = "int" -> x.n * 10 [] x.t = "bool" -> (IF x.b THEN 10 ELSE 0)
                    [] x.t = "float" -> x.f
  IN  IF dtype = "int64" THEN PyInt(asInt) ELSE PyFloat(asTenths)

\* float('nan'), what numpy makes of None
NaN == [t |-> "float", nan |-> TRUE]

IsNum(x) == x.t \in {"int", "bool", "float"}

np_array(value, dtype) ==
  CASE IsNum(value) -> NdArray(dtype, NumCast(value, dtype))
    [] IsSeqVal(value) /\ (\A i \in 1..Len(Elems(value)) : IsNum(Elems(value)[i])) ->
         NdArray(dtype, PyList([i \in 1..Len(Elems(value)) |-> NumCast(Elems(value)[i], dtype)]))
    [] value.t = "ndarray" /\ IsNum(value.data) ->
         NdArray(dtype, NumCast(value.data, dtype))
    [] value.t = "ndarray" /\ ~IsNum(value.data) ->
         NdArray(dtype, PyList([i \in 1..Len(value.data.l) |-> NumCast(value.data.l[i], dtype)]))
    [] value.t = "str" ->
         LET lit == literal_eval(value.s)
         IN  IF ~IsErr(lit) /\ lit.t = "int" THEN NdArray(dtype, NumCast(lit, dtype))
             ELSE IF ~IsErr(lit) /\ lit.t = "float" /\ dtype = "float64" THEN NdArray(dtype, lit)
             ELSE Err("ValueError", "invalid literal", "")
    [] value = PyNone /\ dtype = "float64" -> NdArray(dtype, NaN)
    [] OTHER -> Err("TypeError", "numpy cannot convert", "")

TypeMismatch(value_a, value_b, full_key) == Err("ValueError", "Type mismatch", full_key)

\* A variant that extends an existing sequence with the candidate's elements
CoerceExtend(value_a, value_b, key, full_key) ==
  IF value_a.t = value_b.t THEN value_a
  ELSE IF value_b.t = "ndarray" THEN np_array(value_a, value_b.dtype)
  ELSE IF value_b.t = "str" THEN PyStr(StrOf(value_a))
  ELSE IF value_a.t = "tuple" /\ value_b.t = "list" THEN PyList(value_b.l \o value_a.u)
  ELSE IF value_a.t = "list" /\ value_b.t = "tuple" THEN PyTuple(value_b.u \o value_a.l)
  ELSE TypeMismatch(value_a, value_b, full_key)

\* A variant that tests the types as isinstance() would: a bool passes for an int
CoerceSubclass(value_a, value_b, key, full_key) ==
  IF value_a.t = value_b.t \/ (value_a.t = "bool" /\ value_b.t = "int") THEN value_a
  ELSE IF value_b.t = "str" THEN PyStr(StrOf(value_a))
  ELSE TypeMismatch(value_a, value_b, full_key)

_check_and_coerce_cfg_value_type(value_a, value_b, key, full_key) ==
  IF value_a.t = value_b.t THEN value_a
  ELSE IF value_b.t = "ndarray" THEN np_array(value_a, value_b.dtype)
  ELSE IF value_b.t = "str" THEN PyStr(StrOf(value_a))
  ELSE IF value_a.t = "tuple" /\ value_b.t = "list" THEN PyList(value_a.u)
  ELSE IF value_a.t = "list" /\ value_b.t = "tuple" THEN PyTuple(value_a.l)
  ELSE TypeMismatch(value_a, value_b, full_key)

-----------------------------------------------------------------------------
(* dict items, and the heap of CfgNode objects *)

Keys(items) == {items[n][1] : n \in 1..Len(items)}

HasKey(items, k) == k \in Keys(items)

Index(items, k) == CHOOSE n \in 1..Len(items) : items[n][1] = k

Get(items, k) == items[Index(items, k)][2]

\* dict.__setitem__ on the items: an existing key keeps its place, a new one goes last
Put(items, k, v) ==
  IF HasKey(items, k) THEN [items EXCEPT ![Index(items, k)] = <<k, v>>]
  ELSE Append(items, <<k, v>>)

NoErr == [t |-> "ok"]

Ok(h) == [h |-> h, err |-> NoErr, log |-> <<>>]

Raise(h, e) == [h |-> h, err |-> e, log |-> <<>>]

RECURSIVE Store(_, _)
RECURSIVE StoreItems(_, _)
\* A value is stored in a tree: every CfgNode constructed in it is now an object
Store(h, v) ==
  IF v.t = "CfgNode" /\ ~IsRef(v)
  THEN LET id == Len(h) + 1
           r == StoreItems(Append(h, v), v.items)
       IN  [h |-> [r.h EXCEPT ![id].items = r.items], v |-> Ref(id)]
  ELSE [h |-> h, v |-> v]

StoreItems(h, items) ==
  IF items = <<>> THEN [h |-> h, items |-> <<>>]
  ELSE LET f == Store(h, items[1][2])
           r == StoreItems(f.h, Tail(items))
       IN  [h |-> r.h, items |-> <<<<items[1][1], f.v>>>> \o r.items]

RECURSIVE deepcopy(_, _)
RECURSIVE DeepCopyItems(_, _)
\* copy.deepcopy: a CfgNode is copied with its flag, its registries and its items
deepcopy(h, v) ==
  IF v.t = "CfgNode"
  THEN LET n == IF IsRef(v) THEN h[v.id] ELSE v
       IN  [n EXCEPT !.items = DeepCopyItems(h, n.items)]
  ELSE IF v.t = "dict" THEN PyDict(DeepCopyItems(h, v.items))
  ELSE v

DeepCopyItems(h, items) ==
  IF items = <<>> THEN <<>>
  ELSE <<<<items[1][1], deepcopy(h, items[1][2])>>>> \o DeepCopyItems(h, Tail(items))

RECURSIVE Reach(_, _)
\* the node i and the CfgNodes nested below it
Reach(h, i) ==
  {i} \cup UNION {Reach(h, h[i].items[n][2].id) :
                    n \in {m \in 1..Len(h[i].items) : IsRef(h[i].items[m][2])}}

-----------------------------------------------------------------------------
(* CfgNode: attribute and key assignment, freeze and defrost, the registries *)

IMMUTABLE == "__immutable__"
DEPRECATED_KEYS == "__deprecated_keys__"
RENAMED_KEYS == "__renamed_keys__"

\* dict.__setitem__, which CfgNode inherits unchanged
__setitem__(h, i, key, value) ==
  LET s == Store(h, value)
  IN  Ok([s.h EXCEPT ![i].items = Put(@, key, s.v)])

\* self.__dict__[name] = value, for the three names __init__ puts there
SetDictEntry(h, i, name, value) ==
  CASE name = IMMUTABLE -> [h EXCEPT ![i].imm = value.b]
    [] name = DEPRECATED_KEYS -> [h EXCEPT ![i].dep = value.elems]
    [] name = RENAMED_KEYS -> [h EXCEPT ![i].ren = value.map]

__setattr__(h, i, name, value) ==
  IF ~h[i].imm
  THEN IF name \in {IMMUTABLE, DEPRECATED_KEYS, RENAMED_KEYS}
       THEN Ok(SetDictEntry(h, i, name, value))
       ELSE __setitem__(h, i, name, value)
  ELSE Raise(h, Err("AttributeError", "CfgNode is immutable", name))

RECURSIVE _immutable(_, _, _)
RECURSIVE ImmutableValues(_, _, _)

\* A variant that sets the flag of the node alone
SetFlagHere(h, i, is_immutable) == [h EXCEPT ![i].imm = is_immutable]

\* The loop over self.__dict__.values() finds the flag and the two registries,
\* none of them a CfgNode; the loop over self.values() recurses.
_immutable(h, i, is_immutable) ==
  LET h1 == [h EXCEPT ![i].imm = is_immutable]
  IN  ImmutableValues(h1, h1[i].items, is_immutable)

ImmutableValues(h, items, is_immutable) ==
  IF items = <<>> THEN h
  ELSE LET v == items[1][2]
           h1 == IF IsRef(v) THEN _immutable(h, v.id, is_immutable) ELSE h
       IN  ImmutableValues(h1, Tail(items), is_immutable)

freeze(h, i) == Ok(_immutable(h, i, TRUE))

defrost(h, i) == Ok(_immutable(h, i, FALSE))

is_frozen(h, i) == h[i].imm

register_deprecated_key(h, i, key) ==
  IF key \in h[i].dep
  THEN Raise(h, Err("AssertionError", "already registered as a deprecated key", key))
  ELSE Ok([h EXCEPT ![i].dep = @ \cup {key}])

\* `if message:` is false for None and for the empty string
Truthy(v) == ~(v.t = "NoneType" \/ (v.t = "str" /\ v.s = ""))

\* A variant without the assertion: a second registration replaces the first
RenameAgain(h, i, old_name, new_name, message) ==
  Ok([h EXCEPT ![i].ren =
        [k \in DOMAIN @ \cup {old_name} |->
           IF k = old_name
           THEN (IF Truthy(message) THEN PyTuple(<<PyStr(new_name), message>>) ELSE PyStr(new_name))
           ELSE @[k]]])

register_renamed_key(h, i, old_name, new_name, message) ==
  IF old_name \in DOMAIN h[i].ren
  THEN Raise(h, Err("AssertionError", "already registered as a renamed cfg key", old_name))
  ELSE LET value == IF Truthy(message) THEN PyTuple(<<PyStr(new_name), message>>)
                    ELSE PyStr(new_name)
       IN  Ok([h EXCEPT ![i].ren =
                 [k \in DOMAIN @ \cup {old_name} |-> IF k = old_name THEN value ELSE @[k]]])

\* key_is_deprecated also logs a warning when it answers True
key_is_deprecated(node, full_key) == full_key \in node.dep

key_is_renamed(node, full_key) == full_key \in DOMAIN node.ren

raise_key_rename_error(node, full_key) ==
  LET new_key == node.ren[full_key]
  IN  IF new_key.t = "tuple"
      THEN [t |-> "error", exc |-> "KeyError", msg |-> "was renamed", key |-> full_key,
            new |-> new_key.u[1].s, note |-> " Note: " \o new_key.u[2].s]
      ELSE [t |-> "error", exc |-> "KeyError", msg |-> "was renamed", key |-> full_key,
            new |-> new_key.s, note |-> ""]

-----------------------------------------------------------------------------
(* The merge engine: _merge_a_into_b, merge_from_file, merge_from_other_cfg *)

RECURSIVE Join(_)
\* ".".join(stack), for a stack that is not empty
Join(stack) == IF Len(stack) = 1 THEN stack[1] ELSE stack[1] \o "." \o Join(Tail(stack))

\* stack=None; the code never passes an empty list
NoStack == <<>>

\* A variant that forgets the stack
LastName(stack, k) == k

FullKey(stack, k) == IF stack # NoStack THEN Join(stack) \o "." \o k ELSE k

Logged(r, lines) == [r EXCEPT !.log = lines \o @]

RECURSIVE _merge_a_into_b(_, _, _, _, _)
RECURSIVE MergeItems(_, _, _, _, _)
RECURSIVE MergeKey(_, _, _, _, _, _)

\* A variant that names the key without the path that leads to it
UnknownKeyByName(k, full_key) == Err("KeyError", "Non-existent config key", k)

\* raise KeyError("Non-existent config key: {}".format(full_key))
UnknownKey(k, full_key) == Err("KeyError", "Non-existent config key", full_key)

\* A variant that never descends: the overlay's value replaces b[k] whole
AssignOnly(h, v, k, b, root, stack_push) == __setitem__(h, b, k, v)

\* The end of a pass: a CfgNode is merged into b[k], any other value replaces b[k]
MergeOrAssign(h, v, k, b, root, stack_push) ==
  IF v.t = "CfgNode" THEN _merge_a_into_b(h, v, Get(h[b].items, k).id, root, stack_push)
  ELSE __setitem__(h, b, k, v)

\* One pass of the loop `for k, v_ in a.items()`
MergeKey(h, k, v_, b, root, stack) ==
  LET full_key == FullKey(stack, k)
  IN  IF ~HasKey(h[b].items, k)
      THEN IF key_is_deprecated(h[root], full_key) THEN Logged(Ok(h), <<full_key>>)
           ELSE IF key_is_renamed(h[root], full_key)
                THEN Raise(h, raise_key_rename_error(h[root], full_key))
           ELSE Raise(h, UnknownKey(k, full_key))
      ELSE LET v1 == deepcopy(h, v_)
               v2 == _decode_cfg_value(v1)
               v == _check_and_coerce_cfg_value_type(v2, Get(h[b].items, k), k, full_key)
               stack_push == IF stack = NoStack THEN <<k>> ELSE stack \o <<k>>
           IN  IF IsErr(v) THEN Raise(h, v)
               ELSE MergeOrAssign(h, v, k, b, root, stack_push)

\* A variant whose loop ends after its first pass
MergeFirstKey(h, items, b, root, stack) ==
  IF items = <<>> THEN Ok(h)
  ELSE MergeKey(h, items[1][1], items[1][2], b, root, stack)

\* The loop stops at the first pass that raises
MergeItems(h, items, b, root, stack) ==
  IF items = <<>> THEN Ok(h)
  ELSE LET r == MergeKey(h, items[1][1], items[1][2], b, root, stack)
       IN  IF r.err # NoErr THEN r
           ELSE Logged(MergeItems(r.h, Tail(items), b, root, stack), r.log)

\* A variant that gives the target back as it was when a key raises
MergeOrNothing(h, a, b, root, stack) ==
  LET r == MergeItems(h, (IF IsRef(a) THEN h[a.id] ELSE a).items, b, root, stack)
  IN  IF r.err # NoErr THEN Raise(h, r.err) ELSE r

_merge_a_into_b(h, a, b, root, stack) ==
  IF a.t # "CfgNode"
  THEN Raise(h, Err("AssertionError", "a must be an instance of CfgNode", ""))
  ELSE MergeItems(h, (IF IsRef(a) THEN h[a.id] ELSE a).items, b, root, stack)

merge_from_other_cfg(h, i, cfg_other) == _merge_a_into_b(h, cfg_other, i, i, NoStack)

NoFile == [t |-> "nofile"]

\* open() raises for a file that cannot be read; load_cfg gives the parsed mapping
merge_from_file(h, i, contents) ==
  IF contents = NoFile THEN Raise(h, Err("IOError", "No such file", ""))
  ELSE _merge_a_into_b(h, CfgNode(contents.items), i, i, NoStack)

-----------------------------------------------------------------------------
(* merge_from_list *)

\* The names a dotted key is made of
Segments == {"A", "B", "C", "D", "S", "T", "X", "Y", "K"}

KeyLists ==
  {<<a>> : a \in Segments} \cup {<<a, b>> : a, b \in Segments}
    \cup {<<a, b, c>> : a, b, c \in {"A", "B", "C", "D"}}

\* full_key.split("."): the only list of dot-free names that joins to full_key
Split(full_key) == CHOOSE key_list \in KeyLists : Join(key_list) = full_key

\* The strings of the model hold a name only as a key of a printed mapping
PrintedValues == {PyInt(1), PyInt(2), PyInt(5), PyInt(7)}

Before == {"{'"} \cup {"{'" \o k \o "': " \o Repr(v) \o ", '" : k \in Segments, v \in PrintedValues}

After ==
  {"': " \o Repr(v) \o "}" : v \in PrintedValues}
    \cup {"': " \o Repr(v) \o ", '" \o k \o "': " \o Repr(w) \o "}" :
            k \in Segments, v \in PrintedValues, w \in PrintedValues}

\* `sub in s` for two strings
StrContains(s, sub) == sub = s \/ \E p \in Before, q \in After : p \o sub \o q = s

\* `subkey in d`: False, True, or the TypeError of a value that is no container
Contains(h, d, subkey) ==
  CASE d.t = "CfgNode" -> PyBool(HasKey((IF IsRef(d) THEN h[d.id] ELSE d).items, subkey))
    [] d.t = "dict" -> PyBool(HasKey(d.items, subkey))
    [] d.t = "str" -> PyBool(StrContains(d.s, subkey))
    [] IsSeqVal(d) -> PyBool(\E n \in 1..Len(Elems(d)) : Elems(d)[n] = PyStr(subkey))
    [] OTHER -> Err("TypeError", "argument is not iterable", "")

\* d[subkey], once `subkey in d` has answered True
Subscript(h, d, subkey) ==
  CASE d.t = "CfgNode" -> Get((IF IsRef(d) THEN h[d.id] ELSE d).items, subkey)
    [] d.t = "dict" -> Get(d.items, subkey)
    [] OTHER -> Err("TypeError", "indices must be integers", "")

RECURSIVE Walk(_, _, _, _)
\* for subkey in key_list[:-1]: assert subkey in d; d = d[subkey]
Walk(h, d, subkeys, full_key) ==
  IF subkeys = <<>> THEN d
  ELSE LET c == Contains(h, d, subkeys[1])
       IN  IF IsErr(c) THEN c
           ELSE IF ~c.b THEN Err("AssertionError", "Non-existent key", full_key)
           ELSE LET n == Subscript(h, d, subkeys[1])
                IN  IF IsErr(n) THEN n ELSE Walk(h, n, Tail(subkeys), full_key)

\* One pass of the loop over the (full_key, v) pairs
ListPair(h, i, full_key, v) ==
  IF key_is_deprecated(h[i], full_key) THEN Logged(Ok(h), <<full_key>>)
  ELSE IF key_is_renamed(h[i], full_key) THEN Raise(h, raise_key_rename_error(h[i], full_key))
  ELSE LET key_list == Split(full_key)
           d == Walk(h, Ref(i), SubSeq(key_list, 1, Len(key_list) - 1), full_key)
           subkey == key_list[Len(key_list)]
       IN  IF IsErr(d) THEN Raise(h, d)
           ELSE LET c == Contains(h, d, subkey)
                IN  IF IsErr(c) THEN Raise(h, c)
                    ELSE IF ~c.b THEN Raise(h, Err("AssertionError", "Non-existent key", full_key))
                    ELSE LET old == Subscript(h, d, subkey)
                             value == _check_and_coerce_cfg_value_type(
                                        _decode_cfg_value(v), old, subkey, full_key)
                         IN  IF IsErr(old) THEN Raise(h, old)
                             ELSE IF IsErr(value) THEN Raise(h, value)
                             ELSE IF IsRef(d) THEN __setitem__(h, d.id, subkey, value)
                             ELSE Raise(h, Err("TypeError", "no item assignment", ""))

RECURSIVE ListPairs(_, _, _)
\* zip(cfg_list[0::2], cfg_list[1::2]), in order, up to the first pass that raises
ListPairs(h, i, cfg_list) ==
  IF cfg_list = <<>> THEN Ok(h)
  ELSE LET r == ListPair(h, i, cfg_list[1], cfg_list[2])
       IN  IF r.err # NoErr THEN r
           ELSE Logged(ListPairs(r.h, i, SubSeq(cfg_list, 3, Len(cfg_list))), r.log)

\* A variant without the length assertion: zip() pairs what it can and drops the rest
MergeZipped(h, i, cfg_list) == ListPairs(h, i, SubSeq(cfg_list, 1, 2 * (Len(cfg_list) \div 2)))

merge_from_list(h, i, cfg_list) ==
  IF Len(cfg_list) % 2 # 0 THEN Raise(h, Err("AssertionError", "", ""))
  ELSE ListPairs(h, i, cfg_list)

-----------------------------------------------------------------------------
(* The program: a default tree and an overlay tree are built, then the caller
   assigns, registers, merges, freezes and defrosts in any order.  The target
   tree's root is object 1, the overlay's root is object `other`.            *)

MaxSteps == 3

MaxMergeSteps == 2

MaxNodes == 8

Leaf12 == PyTuple(<<PyInt(1), PyInt(2)>>)

\* {A: {B: 1, C: 2}, S: 'abc', T: (1, 2)}
Shallow ==
  CfgNode(<< <<"A", CfgNode(<< <<"B", PyInt(1)>>, <<"C", PyInt(2)>> >>)>>,
             <<"S", PyStr("abc")>>, <<"T", Leaf12>> >>)

\* {A: {B: 1, C: {D: 2}}, S: 'abc'}
Deep ==
  CfgNode(<< <<"A", CfgNode(<< <<"B", PyInt(1)>>,
                               <<"C", CfgNode(<< <<"D", PyInt(2)>> >>)>> >>)>>,
             <<"S", PyStr("abc")>> >>)

\* {A: {B: 5}}
Overlay1 == CfgNode(<< <<"A", CfgNode(<< <<"B", PyInt(5)>> >>)>> >>)

\* {S: 7, A: {B: '5', X: 1}}
Overlay2 ==
  CfgNode(<< <<"S", PyInt(7)>>,
             <<"A", CfgNode(<< <<"B", PyStr("5")>>, <<"X", PyInt(1)>> >>)>> >>)

\* {A: {C: {D: 5}}, T: [3, 4]}
Overlay3 ==
  CfgNode(<< <<"A", CfgNode(<< <<"C", CfgNode(<< <<"D", PyInt(5)>> >>)>> >>)>>,
             <<"T", PyList(<<PyInt(3), PyInt(4)>>)>> >>)

\* {T: [3, 4], S: 7}
Overlay4 == CfgNode(<< <<"T", PyList(<<PyInt(3), PyInt(4)>>)>>, <<"S", PyInt(7)>> >>)

Defaults == {Deep}

Others == {Overlay1}

\* The state after the caller has built the default tree d and the overlay o
Built(d, o, budget) ==
  /\ LET s1 == Store(<<>>, d)
         s2 == Store(s1.h, o)
     IN  heap = s2.h /\ other = s2.v.id
  /\ last = [op |-> "init", node |-> 0, args |-> <<>>, err |-> NoErr, log |-> <<>>,
             pre |-> <<>>, was |-> {}]
  /\ frozen = {}
  /\ steps = budget

Init == \E d \in Defaults, o \in Others : Built(d, o, MaxSteps)

\* The nodes of the target tree and of the overlay tree
Nodes == Reach(heap, 1)

OtherNodes == Reach(heap, other)

\* One call by the caller: `frozen` remembers the nodes freeze() was called on
\* since the last defrost(), `last` the call, its outcome and the heap before it
Call(op, i, args, r) ==
  /\ steps > 0
  /\ Len(r.h) <= MaxNodes
  /\ heap' = r.h
  /\ last' = [op |-> op, node |-> i, args |-> args, err |-> r.err, log |-> r.log,
              pre |-> heap, was |-> frozen]
  /\ frozen' = CASE op = "freeze" -> frozen \cup {i}
                 [] op = "defrost" -> {}
                 [] OTHER -> frozen
  /\ steps' = steps - 1
  /\ UNCHANGED other

SetAttr(i, name, value) == Call("setattr", i, <<name, value>>, __setattr__(heap, i, name, value))

SetItem(i, key, value) == Call("setitem", i, <<key, value>>, __setitem__(heap, i, key, value))

Freeze(i) == Call("freeze", i, <<>>, freeze(heap, i))

Defrost(i) == Call("defrost", i, <<>>, defrost(heap, i))

RegisterDeprecated(i, key) ==
  Call("register_deprecated_key", i, <<key>>, register_deprecated_key(heap, i, key))

RegisterRenamed(i, old_name, new_name, message) ==
  Call("register_renamed_key", i, <<old_name, new_name, message>>,
       register_renamed_key(heap, i, old_name, new_name, message))

MergeFromOtherCfg(i, j) ==
  Call("merge_from_other_cfg", i, <<j>>, merge_from_other_cfg(heap, i, Ref(j)))

MergeFromFile(i, contents) ==
  Call("merge_from_file", i, <<contents>>, merge_from_file(heap, i, contents))

MergeFromList(i, cfg_list) ==
  Call("merge_from_list", i, <<cfg_list>>, merge_from_list(heap, i, cfg_list))

(* The inputs of the life-cycle runs *)

AttrNames == {"B", "N"}

AssignValues == {PyInt(7), CfgNode(<<>>)}

Flags == {PyBool(TRUE), PyBool(FALSE)}

SomeFiles ==
  {PyDict(<< <<"A", PyDict(<< <<"B", PyInt(5)>> >>)>> >>)}

SomeLists ==
  {<<"A.B", PyInt(5)>>, <<"A", PyDict(<< <<"N", PyInt(5)>> >>)>>}

Next ==
  \/ \E i \in Nodes, name \in AttrNames, value \in AssignValues : SetAttr(i, name, value)
  \/ \E i \in Nodes, value \in Flags : SetAttr(i, IMMUTABLE, value)
  \/ \E i \in Nodes, key \in AttrNames, value \in AssignValues : SetItem(i, key, value)
  \/ \E i \in Nodes : Freeze(i)
  \/ \E i \in Nodes : Defrost(i)
  \/ \E i \in Nodes : RegisterDeprecated(i, "A.B")
  \/ \E i \in Nodes : RegisterRenamed(i, "A.B", "A.N", PyNone)
  \/ MergeFromOtherCfg(1, other)
  \/ \E contents \in SomeFiles : MergeFromFile(1, contents)
  \/ \E cfg_list \in SomeLists : MergeFromList(1, cfg_list)

Spec == Init /\ [][Next]_vars

-----------------------------------------------------------------------------
(* The merge runs: keys are registered and overlays are merged *)

InitMerge ==
  \E d \in {Shallow, Deep}, o \in {Overlay1, Overlay2, Overlay3, Overlay4} :
    Built(d, o, MaxMergeSteps)

DepKeys == {"X", "A.X", "A.B"}

Files ==
  {D1("A", D1("B", PyInt(5))),
   D1("A", D2("B", PyInt(5), "X", PyInt(1))),
   D1("A", D2("X", PyInt(1), "B", PyInt(5))),
   D2("S", PyInt(7), "X", PyInt(1)),
   D2("X", D1("Y", PyInt(1)), "S", PyStr("123")),
   D1("A", D1("X", D1("Y", PyInt(1)))),
   D2("S", D1("X", PyInt(5)), "T", PyStr("[3, 4]")),
   D2("T", PyList(<<PyInt(3), PyInt(4)>>), "A", PyInt(1)),
   D1("B", PyInt(5)),
   D1("A", D2("C", D1("D", PyInt(5)), "B", PyStr("xyz"))),
   NoFile}

Lists ==
  {<<"A.B", PyInt(5)>>,
   <<"A.B", PyStr("5"), "A.B", PyInt(7)>>,
   <<"A", D1("N", PyInt(5))>>,
   <<"A", D1("B", PyStr("x"))>>,
   <<"S", PyStr("123"), "A.X", PyInt(1)>>,
   <<"X", PyInt(1), "A.B", PyInt(5)>>,
   <<"A.C.D", PyInt(5), "T", PyStr("(3, 4)")>>,
   <<"S.X", PyInt(1)>>,
   <<"A.B.C", PyInt(1)>>,
   <<"A.B", PyInt(5), "S">>}

NextMerge ==
  \/ \E i \in Nodes, key \in DepKeys : RegisterDeprecated(i, key)
  \/ \E i \in Nodes : RegisterRenamed(i, "A.X", "A.B", PyNone)
  \/ \E i \in Nodes : RegisterRenamed(i, "S", "T", PyStr("use T"))
  \/ RegisterRenamed(1, "X", "S", PyStr(""))
  \/ \E i \in Nodes, j \in OtherNodes : MergeFromOtherCfg(i, j)
  \/ \E contents \in Files : MergeFromFile(1, contents)
  \/ \E cfg_list \in Lists : MergeFromList(1, cfg_list)

SpecMerge == InitMerge /\ [][NextMerge]_vars

-----------------------------------------------------------------------------
(* The reconciler on its own: a tree {K: existing} is built, then a candidate
   is reconciled against the leaf K, alone or by a merge that names K.       *)

Scalars == {PyInt(1), PyInt(5), PyBool(TRUE), PyFloat(15), PyNone, PyStr("abc"), PyStr("123")}

Sequences123 ==
  {PyList(<<PyInt(3), PyInt(4)>>), PyTuple(<<PyInt(3), PyInt(4)>>), PyTuple(<<PyInt(1)>>),
   PyList(<<>>)}

Arrays == {NdArray("int64", PyList(<<PyInt(1), PyInt(2)>>)), NdArray("float64", PyFloat(15))}

PairCandidates ==
  Scalars \cup Sequences123 \cup Arrays
    \cup {D1("B", PyInt(5)), CfgNode(<< <<"B", PyInt(5)>> >>), CfgNode(<<>>)}

PairExisting ==
  Scalars \cup Sequences123 \cup Arrays
    \cup {CfgNode(<< <<"B", PyInt(1)>> >>), Leaf12, PyStr("")}

InitPair ==
  /\ \E b \in PairExisting : heap = Store(<<>>, CfgNode(<< <<"K", b>> >>)).h
  /\ other = 1
  /\ last = [op |-> "init", node |-> 0, args |-> <<>>, err |-> NoErr, log |-> <<>>,
             pre |-> <<>>, was |-> {}]
  /\ frozen = {}
  /\ steps = 1

Coerce(value_a) ==
  /\ steps > 0
  /\ LET value_b == Get(heap[1].items, "K")
     IN  last' = [op |-> "coerce", node |-> 1, args |-> <<value_a, value_b>>,
                  res |-> _check_and_coerce_cfg_value_type(value_a, value_b, "K", "K"),
                  err |-> NoErr, log |-> <<>>, pre |-> heap, was |-> frozen]
  /\ steps' = steps - 1
  /\ UNCHANGED <<heap, other, frozen>>

NextPair ==
  \/ \E value_a \in PairCandidates : Coerce(value_a)
  \/ \E value_a \in PairCandidates : MergeFromList(1, <<"K", value_a>>)
  \/ \E value_a \in PairCandidates : MergeFromFile(1, D1("K", value_a))

SpecPair == InitPair /\ [][NextPair]_vars

-----------------------------------------------------------------------------
(* clone(), and the runs with a tree and its clone: the clone's root is
   object `other` once clone() has been called, and 0 before.                *)

\* A variant that copies the node alone and shares what is nested in it
ShallowClone(h, i) == Store(h, h[i])

\* copy.deepcopy(self): the copy is an object of its own, and so is every node in it
clone(h, i) == Store(h, deepcopy(h, Ref(i)))

MaxCloneSteps == 3

InitClone ==
  /\ \E d \in {Shallow, Deep} : heap = Store(<<>>, d).h
  /\ other = 0
  /\ last = [op |-> "init", node |-> 0, args |-> <<>>, err |-> NoErr, log |-> <<>>,
             pre |-> <<>>, was |-> {}]
  /\ frozen = {}
  /\ steps = MaxCloneSteps

Clone ==
  /\ steps > 0
  /\ other = 0
  /\ LET r == clone(heap, 1)
     IN  /\ Len(r.h) <= MaxNodes
         /\ heap' = r.h
         /\ other' = r.v.id
  /\ last' = [op |-> "clone", node |-> 1, args |-> <<>>, err |-> NoErr, log |-> <<>>,
              pre |-> heap, was |-> frozen]
  /\ steps' = steps - 1
  /\ UNCHANGED frozen

\* The roots and the nodes of the two trees
Roots == IF other = 0 THEN {1} ELSE {1, other}

CloneNodes == IF other = 0 THEN {} ELSE Reach(heap, other)

CloneFiles ==
  {D2("S", PyInt(7), "X", PyInt(1)),
   D1("A", D2("B", PyInt(5), "X", PyInt(1))),
   D1("A", D1("B", PyInt(5)))}

NextClone ==
  \/ Clone
  \/ \E i \in Nodes \cup CloneNodes : SetAttr(i, "B", PyInt(7))
  \/ \E i \in Nodes \cup CloneNodes : SetItem(i, "N", CfgNode(<<>>))
  \/ \E i \in Nodes \cup CloneNodes : Freeze(i)
  \/ \E i \in Nodes \cup CloneNodes : Defrost(i)
  \/ \E i \in Roots : RegisterDeprecated(i, "X")
  \/ \E i \in Roots : RegisterRenamed(i, "S", "T", PyNone)
  \/ \E i \in Roots : RegisterRenamed(i, "S", "A.B", PyStr("use A.B"))
  \/ \E i, j \in Roots : i # j /\ MergeFromOtherCfg(i, j)
  \/ \E i \in Roots, contents \in CloneFiles : MergeFromFile(i, contents)
  \/ \E i \in Roots : MergeFromList(i, <<"A.B", PyInt(5)>>)

SpecClone == InitClone /\ [][NextClone]_vars

-----------------------------------------------------------------------------
(* Views of a tree, used to state the properties *)

IsMap(v) == v.t \in {"CfgNode", "dict"}

ItemsOf(h, v) == (IF IsRef(v) THEN h[v.id] ELSE v).items

RECURSIVE PathsOf(_, _)
\* The key paths of a mapping, each a sequence of keys
PathsOf(h, v) ==
  IF ~IsMap(v) THEN {}
  ELSE UNION {{<<ItemsOf(h, v)[n][1]>>}
                \cup {<<ItemsOf(h, v)[n][1]>> \o q : q \in PathsOf(h, ItemsOf(h, v)[n][2])} :
              n \in 1..Len(ItemsOf(h, v))}

RECURSIVE At(_, _, _)
\* The value at a key path
At(h, v, p) == IF p = <<>> THEN v ELSE At(h, Get(ItemsOf(h, v), p[1]), Tail(p))

Front(p) == SubSeq(p, 1, Len(p) - 1)

RECURSIVE PathOrder(_, _, _)
\* The key paths of a mapping in the order a depth-first walk of its items meets them
PathOrder(h, v, prefix) ==
  IF ~IsMap(v) THEN <<>>
  ELSE LET RECURSIVE Each(_)
           Each(items) ==
             IF items = <<>> THEN <<>>
             ELSE <<prefix \o <<items[1][1]>>>>
                    \o PathOrder(h, items[1][2], prefix \o <<items[1][1]>>)
                    \o Each(Tail(items))
       IN  Each(ItemsOf(h, v))

Position(order, p) == CHOOSE n \in 1..Len(order) : order[n] = p

TreeMerges == {"merge_from_other_cfg", "merge_from_file"}

Merges == TreeMerges \cup {"merge_from_list"}

\* The last call was a tree merge whose overlay could be read
TreeMerged ==
  \/ last.op = "merge_from_other_cfg"
  \/ last.op = "merge_from_file" /\ last.args[1] # NoFile

\* The target and the overlay of the last tree merge, and the root's registries
Target == Ref(last.node)

Overlay ==
  IF last.op = "merge_from_other_cfg" THEN Ref(last.args[1])
  ELSE CfgNode(last.args[1].items)

Root == last.pre[last.node]

Registered(full_key) == full_key \in Root.dep \/ full_key \in DOMAIN Root.ren

\* The overlay keys the target lacks although it has their parent node
Unknown ==
  {p \in PathsOf(last.pre, Overlay) :
     /\ p \notin PathsOf(last.pre, Target)
     /\ Front(p) = <<>> \/ (Front(p) \in PathsOf(last.pre, Target)
                             /\ IsRef(At(last.pre, Target, Front(p))))}

\* No flag, no registry and no object count differs from before the last call
SameMetadata ==
  /\ Len(heap) = Len(last.pre)
  /\ \A n \in 1..Len(heap) :
       /\ heap[n].imm = last.pre[n].imm
       /\ heap[n].dep = last.pre[n].dep
       /\ heap[n].ren = last.pre[n].ren

-----------------------------------------------------------------------------
(* C1: after a successful merge (tree merge or override list) the target has
   exactly the key paths it had before: merge never introduces a key.        *)
C1_MergeKeepsKeyPaths ==
  (last.op \in Merges /\ last.err = NoErr)
    => PathsOf(heap, Target) = PathsOf(last.pre, Target)

(* C2: a successful tree merge changes only the leaves the overlay names:
   every key path of the target that the overlay lacks keeps its value, every
   nested node stays the same object, every leaf the overlay names holds the
   decoded overlay value reconciled against the old leaf, and the overlay, a
   tree of its own, is left as it was.                                       *)
C2_TreeMergeFrame ==
  (TreeMerged /\ last.err = NoErr) =>
    /\ PathsOf(heap, Target) = PathsOf(last.pre, Target)
    /\ SameMetadata
    /\ \A p \in PathsOf(last.pre, Target) :
         LET old == At(last.pre, Target, p)
             full_key == Join(p)
         IN  IF p \notin PathsOf(last.pre, Overlay) \/ IsRef(old)
             THEN At(heap, Target, p) = old
             ELSE At(heap, Target, p) =
                    _check_and_coerce_cfg_value_type(
                      _decode_cfg_value(deepcopy(last.pre, At(last.pre, Overlay, p))),
                      old, p[Len(p)], full_key)
    /\ last.op = "merge_from_other_cfg"
         => deepcopy(heap, Overlay) = deepcopy(last.pre, Overlay)

\* {A: {B: 5}} merged onto {A: {B: 1, C: 2}, ...} has given {A: {B: 5, C: 2}, ...}
C2_Witness ==
  /\ TreeMerged /\ last.err = NoErr /\ last.node = 1
  /\ deepcopy(last.pre, Overlay).items = Overlay1.items
  /\ At(last.pre, Target, <<"A", "B">>) = PyInt(1)
  /\ At(last.pre, Target, <<"A", "C">>) = PyInt(2)
  /\ At(heap, Target, <<"A", "B">>) = PyInt(5)
  /\ At(heap, Target, <<"A", "C">>) = PyInt(2)

IsUnknownKeyError(e) == IsErr(e) /\ e.exc = "KeyError" /\ e.msg = "Non-existent config key"

IsRenameError(e) == IsErr(e) /\ e.exc = "KeyError" /\ e.msg = "was renamed"

\* The unknown keys that are registered neither deprecated nor renamed
Unregistered == {p \in Unknown : ~Registered(Join(p))}

Walked == PathOrder(last.pre, Overlay, <<>>)

\* The overlay keys the walk meets before the key the error names
BeforeError ==
  {Walked[n] : n \in {m \in 1..Len(Walked) :
                        \E f \in 1..Len(Walked) : Join(Walked[f]) = last.err.key /\ m < f}}

(* C3, as claimed: a tree merge whose overlay contains a key absent from the
   target and registered neither deprecated nor renamed always fails with
   UnknownKeyError, and the target does not gain that key.                   *)
C3_UnknownKeyAlwaysFails ==
  TreeMerged =>
    \A p \in PathsOf(last.pre, Overlay) :
      (p \notin PathsOf(last.pre, Target) /\ ~Registered(Join(p)))
        => IsUnknownKeyError(last.err) /\ p \notin PathsOf(heap, Target)

(* C3, amended: when the overlay of a tree merge contains a key that the
   target lacks under a node the target has, registered neither deprecated nor
   renamed, the merge fails; the error is the UnknownKeyError naming the full
   dotted path of the first such key, unless a key walked before it raised
   another error; the target gains none of those keys, and only keys walked
   before the raising key have changed.                                      *)
C3_UnknownKeyFails ==
  (TreeMerged /\ Unregistered # {}) =>
    LET first == CHOOSE p \in Unregistered :
                   \A q \in Unregistered : Position(Walked, p) <= Position(Walked, q)
    IN  /\ IsErr(last.err)
        /\ \A p \in Unregistered : p \notin PathsOf(heap, Target)
        /\ IF IsUnknownKeyError(last.err) THEN last.err.key = Join(first)
           ELSE \E f \in 1..Len(Walked) :
                  Join(Walked[f]) = last.err.key /\ f < Position(Walked, first)
        /\ PathsOf(heap, Target) = PathsOf(last.pre, Target)
        /\ \A t \in PathsOf(last.pre, Target) :
             t \notin BeforeError => At(heap, Target, t) = At(last.pre, Target, t)

\* A nested unknown key has raised after its sibling before it was applied
C3_Witness ==
  /\ TreeMerged /\ IsUnknownKeyError(last.err) /\ last.err.key = "A.X"
  /\ At(last.pre, Target, <<"A", "B">>) = PyInt(1)
  /\ At(heap, Target, <<"A", "B">>) = PyInt(5)

-----------------------------------------------------------------------------
\* The pairs of an override list
PairKeys(cfg_list) == {cfg_list[2 * n - 1] : n \in 1..(Len(cfg_list) \div 2)}

RECURSIVE DropDeprecated(_)
\* An override list without the pairs whose key the root has registered deprecated
DropDeprecated(cfg_list) ==
  IF Len(cfg_list) < 2 THEN cfg_list
  ELSE IF cfg_list[1] \in Root.dep THEN DropDeprecated(SubSeq(cfg_list, 3, Len(cfg_list)))
  ELSE <<cfg_list[1], cfg_list[2]>> \o DropDeprecated(SubSeq(cfg_list, 3, Len(cfg_list)))

\* The overlay keys of the last tree merge that the root has registered renamed
\* and that lie under a node of the target
RenamedInOverlay ==
  {p \in PathsOf(last.pre, Overlay) :
     /\ Join(p) \in DOMAIN Root.ren
     /\ Front(p) = <<>> \/ (Front(p) \in PathsOf(last.pre, Target)
                             /\ IsRef(At(last.pre, Target, Front(p))))}

(* C5: a merge (tree merge or override list) whose overlay names a key
   registered renamed never succeeds and never writes that key's value,
   whether or not the old key exists in the target; the KeyRenamedError it
   raises names the old and the new key.                                     *)
C5_RenamedKeyAlwaysFails ==
  /\ TreeMerged =>
       \A p \in RenamedInOverlay :
         /\ IsErr(last.err)
         /\ p \in PathsOf(last.pre, Target)
              => At(heap, Target, p) = At(last.pre, Target, p)
  /\ (last.op = "merge_from_list" /\ Len(last.args[1]) % 2 = 0) =>
       \A k \in PairKeys(last.args[1]) : k \in DOMAIN Root.ren => IsErr(last.err)
  /\ (last.op \in Merges /\ IsRenameError(last.err)) =>
       /\ last.err.key \in DOMAIN Root.ren
       /\ last.err.new = (IF Root.ren[last.err.key].t = "tuple"
                          THEN Root.ren[last.err.key].u[1].s
                          ELSE Root.ren[last.err.key].s)

(* C6: an overlay key whose full dotted path the merge root has registered
   deprecated is skipped without error and without change: a tree merge skips
   it when the target lacks it, an override list skips every such pair, and
   the merge goes on with the remaining keys; only the exact full path
   matches.                                                                  *)
C6_DeprecatedKeySkipped ==
  /\ last.op \in Merges =>
       \A n \in 1..Len(last.log) : last.log[n] \in Root.dep
  /\ TreeMerged =>
       /\ \A n \in 1..Len(last.log) :
            \E p \in Unknown : Join(p) = last.log[n] /\ p \notin PathsOf(heap, Target)
       /\ last.err = NoErr =>
            \A p \in Unknown : Join(p) \in Root.dep
                                 /\ \E n \in 1..Len(last.log) : last.log[n] = Join(p)
       /\ IsUnknownKeyError(last.err) => last.err.key \notin Root.dep
       /\ IsRenameError(last.err) => last.err.key \notin Root.dep
  /\ (last.op = "merge_from_list" /\ Len(last.args[1]) % 2 = 0) =>
       LET r == merge_from_list(last.pre, last.node, DropDeprecated(last.args[1]))
       IN  /\ heap = r.h
           /\ last.err = r.err
           /\ last.err = NoErr =>
                \A k \in PairKeys(last.args[1]) :
                  k \in Root.dep => \E n \in 1..Len(last.log) : last.log[n] = k
           /\ IsErr(last.err) => last.err.key \notin Root.dep

\* A tree merge has skipped the deprecated A.X and then applied its sibling A.B
C6_Witness ==
  /\ TreeMerged /\ last.err = NoErr /\ last.log = <<"A.X">>
  /\ At(last.pre, Target, <<"A", "B">>) = PyInt(1)
  /\ At(heap, Target, <<"A", "B">>) = PyInt(5)
  /\ <<"A", "X">> \notin PathsOf(heap, Target)

-----------------------------------------------------------------------------
IsTypeMismatch(e) == IsErr(e) /\ e.exc = "ValueError" /\ e.msg = "Type mismatch"

(* C4: the reconciler returns, for every pair (candidate, existing), the
   result of its six rules in order: the candidate unchanged for identical
   types; the candidate as an array of the existing dtype when the existing
   value is an array (or numpy's own error when it cannot convert); the
   candidate's string form for an existing string; tuple to list; list to
   tuple; TypeMismatchError for every other pair, and then nothing is
   assigned.                                                                 *)
C4_ReconcilerRules ==
  /\ last.op = "coerce" =>
       LET a == last.args[1]
           b == last.args[2]
           res == last.res
       IN  /\ IF a.t = b.t THEN res = a
              ELSE IF b.t = "ndarray"
                   THEN \/ res.t = "ndarray" /\ res.dtype = b.dtype
                        \/ /\ IsErr(res) /\ res.exc \in {"TypeError", "ValueError"}
                           /\ ~IsTypeMismatch(res) /\ ~IsNum(a) /\ ~IsSeqVal(a)
              ELSE IF b.t = "str" THEN res.t = "str" /\ res.s = StrOf(a)
              ELSE IF a.t = "tuple" /\ b.t = "list" THEN res = PyList(a.u)
              ELSE IF a.t = "list" /\ b.t = "tuple" THEN res = PyTuple(a.l)
              ELSE IsTypeMismatch(res)
           /\ (a = PyList(<<PyInt(3), PyInt(4)>>) /\ b = Leaf12)
                => res = PyTuple(<<PyInt(3), PyInt(4)>>)
           /\ (a = PyInt(5) /\ b = PyStr("abc")) => res = PyStr("5")
           /\ (a = PyBool(TRUE) /\ b.t = "int") => IsTypeMismatch(res)
           /\ (a.t = "int" /\ b.t = "float") => IsTypeMismatch(res)
           /\ (a # PyNone /\ b = PyNone) => IsTypeMismatch(res)
           /\ (a.t = "CfgNode" /\ b.t \in {"int", "bool", "float"}) => IsTypeMismatch(res)
  /\ (last.op \in Merges /\ IsTypeMismatch(last.err)) => heap = last.pre

\* The list [3, 4] has been reconciled against the tuple (1, 2)
C4_Witness ==
  /\ last.op = "coerce"
  /\ last.args = <<PyList(<<PyInt(3), PyInt(4)>>), Leaf12>>
  /\ last.res = PyTuple(<<PyInt(3), PyInt(4)>>)

-----------------------------------------------------------------------------
\* The last call had as target a node of a tree on which freeze() had been
\* called, with no defrost() since
InFrozenTree == \E r \in last.was : last.node \in Reach(last.pre, r)

IsImmutableError(e) == IsErr(e) /\ e.exc = "AttributeError"

(* C7: after freeze() on a tree and before any defrost(), an attribute
   assignment on the root or on any node nested in the tree fails with
   ImmutableWriteError and leaves the whole tree unchanged.                  *)
C7_FrozenTreeRejectsSetAttr ==
  (last.op = "setattr" /\ InFrozenTree) => IsImmutableError(last.err) /\ heap = last.pre

(* C8: a key assignment node[key] = value on a frozen node, adding a key or
   overwriting one, fails with ImmutableWriteError and leaves the node
   unchanged.                                                                *)
C8_FrozenNodeRejectsSetItem ==
  (last.op = "setitem" /\ is_frozen(last.pre, last.node))
    => IsImmutableError(last.err) /\ heap = last.pre

(* C9: freeze() sets the flag to true, and defrost() to false, on the node
   and on every node nested below it through keys, at any depth, whatever the
   flags were before; is_frozen() of each returns the new flag; no key, value or
   registry changes.                                                         *)
C9_FreezeSetsWholeSubtree ==
  last.op \in {"freeze", "defrost"} =>
    /\ last.err = NoErr
    /\ \A n \in Reach(last.pre, last.node) : is_frozen(heap, n) = (last.op = "freeze")
    /\ Len(heap) = Len(last.pre)
    /\ \A n \in 1..Len(heap) :
         /\ heap[n].items = last.pre[n].items
         /\ heap[n].dep = last.pre[n].dep
         /\ heap[n].ren = last.pre[n].ren

\* freeze() or defrost() has acted on a tree of three nodes whose flags differed
C9_Witness ==
  /\ last.op \in {"freeze", "defrost"}
  /\ Cardinality(Reach(last.pre, last.node)) >= 3
  /\ \E m, n \in Reach(last.pre, last.node) : last.pre[m].imm # last.pre[n].imm
  /\ \E n \in Reach(last.pre, last.node) \ {last.node} : heap[n].imm # last.pre[n].imm

(* C10: between freeze() of a tree and the next defrost(), no merge with the
   frozen tree as target changes any key or value of the tree.               *)
C10_FrozenTreeRejectsMerge ==
  (last.op \in Merges /\ last.node \in last.was) => heap = last.pre

-----------------------------------------------------------------------------
\* The overlay keys the walk of the last tree merge met before the key that raised
Applied == {p \in BeforeError : p \in PathsOf(last.pre, Target)}

\* The last call had the clone as target
OnClone == other # 0 /\ last.op # "clone" /\ last.node \in Reach(last.pre, other)

\* No node of the tree under root r differs from before the last call
SameTree(r) ==
  /\ Reach(heap, r) = Reach(last.pre, r)
  /\ \A n \in Reach(last.pre, r) : heap[n] = last.pre[n]

(* C11: a tree merge that fails at an overlay key has no rollback: every
   leaf the walk met before that key holds its reconciled overlay value, the
   failing key and every key after it hold their values from before the
   merge, and the caller gets the error; a failed merge into a clone leaves
   the original tree as it was.                                              *)
C11_NoRollback ==
  (TreeMerged /\ IsErr(last.err)) =>
    /\ \E f \in 1..Len(Walked) : Join(Walked[f]) = last.err.key
    /\ PathsOf(heap, Target) = PathsOf(last.pre, Target)
    /\ SameMetadata
    /\ \A p \in PathsOf(last.pre, Target) :
         LET old == At(last.pre, Target, p)
         IN  IF p \in Applied /\ ~IsRef(old)
             THEN At(heap, Target, p) =
                    _check_and_coerce_cfg_value_type(
                      _decode_cfg_value(deepcopy(last.pre, At(last.pre, Overlay, p))),
                      old, p[Len(p)], Join(p))
             ELSE At(heap, Target, p) = old
    /\ OnClone => SameTree(1)

\* A merge into the clone has failed after it had changed a leaf of the clone
C11_Witness ==
  /\ TreeMerged /\ IsErr(last.err) /\ OnClone
  /\ \E p \in Applied : At(heap, Target, p) # At(last.pre, Target, p)
  /\ SameTree(1)

-----------------------------------------------------------------------------
RECURSIVE Reorderings(_)
\* The mappings with the items of v, and of every mapping nested in v, in any order
Reorderings(v) ==
  IF ~IsMap(v) THEN {v}
  ELSE LET n == Len(v.items)
           orders == {f \in [1..n -> 1..n] : \A i, j \in 1..n : i # j => f[i] # f[j]}
           nested == UNION {Reorderings(v.items[i][2]) : i \in 1..n}
       IN  UNION {{[v EXCEPT !.items = [i \in 1..n |-> <<v.items[f[i]][1], g[i]>>]] :
                     g \in {c \in [1..n -> nested] :
                              \A i \in 1..n : c[i] \in Reorderings(v.items[f[i]][2])}} :
                  f \in orders}

\* The overlay of the last tree merge as a value, and the merge of a reordering of it
OverlayValue == _decode_cfg_value(deepcopy(last.pre, Overlay))

Reordered(a) == _merge_a_into_b(last.pre, a, last.node, last.node, NoStack)

(* C12, as claimed: a tree merge that visits the overlay's sibling keys in any
   other order yields the same final target tree.                            *)
C12_AnyOrderSameTree ==
  TreeMerged => \A a \in Reorderings(OverlayValue) : Reordered(a).h = heap

(* C12, amended: whether a tree merge succeeds does not depend on the order in
   which the overlay's sibling keys are visited, and a merge that succeeds
   yields the same final target tree in every order.                         *)
C12_AnyOrderSameSuccess ==
  TreeMerged =>
    \A a \in Reorderings(OverlayValue) :
      /\ (Reordered(a).err = NoErr) = (last.err = NoErr)
      /\ last.err = NoErr => Reordered(a).h = heap

\* A merge whose overlay has two sibling keys has succeeded and changed both leaves
C12_Witness ==
  /\ TreeMerged /\ last.err = NoErr
  /\ Cardinality(Reorderings(OverlayValue)) >= 2
  /\ \E p, q \in PathsOf(last.pre, Overlay) :
       /\ p # q /\ Front(p) = Front(q)
       /\ p \in PathsOf(last.pre, Target) /\ q \in PathsOf(last.pre, Target)
       /\ At(heap, Target, p) # At(last.pre, Target, p)
       /\ At(heap, Target, q) # At(last.pre, Target, q)

-----------------------------------------------------------------------------
(* C13: merge_from_list with a list of odd length fails before any pair is
   processed: the tree is exactly as it was before the call, even when the
   leading pairs of the list are valid overrides.                            *)
C13_OddListChangesNothing ==
  (last.op = "merge_from_list" /\ Len(last.args[1]) % 2 = 1) =>
    /\ IsErr(last.err) /\ last.err.exc = "AssertionError"
    /\ last.log = <<>>
    /\ heap = last.pre

\* An odd list has been refused whose first pair alone would have changed a leaf
C13_Witness ==
  /\ last.op = "merge_from_list" /\ Len(last.args[1]) % 2 = 1 /\ Len(last.args[1]) >= 3
  /\ IsErr(last.err)
  /\ LET r == merge_from_list(last.pre, last.node, SubSeq(last.args[1], 1, 2))
     IN  r.err = NoErr /\ r.h # last.pre

-----------------------------------------------------------------------------
\* The tree under root r as a value: keys, values, flags and registries at every depth
TreeValue(h, r) == deepcopy(h, Ref(r))

(* C14: clone() returns a tree equal to the original (keys, values, flags,
   registries) that shares no node with it; afterwards every write, merge,
   freeze, defrost and registration on a node of the clone leaves every node
   of the original as it was, and every one on the original leaves the clone
   as it was.                                                                *)
C14_CloneIsIndependent ==
  other # 0 =>
    /\ Reach(heap, 1) \cap Reach(heap, other) = {}
    /\ last.op = "clone" =>
         /\ TreeValue(heap, other) = TreeValue(last.pre, 1)
         /\ SameTree(1)
    /\ OnClone => SameTree(1)
    /\ (last.op # "clone" /\ last.node \in Reach(last.pre, 1)) => SameTree(other)

\* A call on a nested node of the clone has changed the clone, not the original
C14_Witness ==
  /\ OnClone /\ last.node # other
  /\ last.err = NoErr
  /\ TreeValue(heap, other) # TreeValue(last.pre, other)
  /\ TreeValue(heap, 1) = TreeValue(last.pre, 1)

-----------------------------------------------------------------------------
IsDuplicateRegistrationError(e) == IsErr(e) /\ e.exc = "AssertionError"

\* Nothing but the registry `field` of the node the last call was made on has changed
OnlyRegistry(field) ==
  /\ Len(heap) = Len(last.pre)
  /\ \A n \in 1..Len(heap) :
       /\ heap[n].items = last.pre[n].items
       /\ heap[n].imm = last.pre[n].imm
       /\ (n # last.node \/ field # "dep") => heap[n].dep = last.pre[n].dep
       /\ (n # last.node \/ field # "ren") => heap[n].ren = last.pre[n].ren

(* C15: registering a key as deprecated that the node already has registered
   deprecated, or as renamed that it already has registered renamed, fails
   with DuplicateRegistrationError and changes neither registry (the first
   renamed mapping stays); a first registration succeeds, frozen or not, and
   adds exactly that entry.                                                  *)
C15_DuplicateRegistrationFails ==
  /\ last.op = "register_deprecated_key" =>
       LET key == last.args[1]
           was == last.pre[last.node].dep
       IN  IF key \in was
           THEN IsDuplicateRegistrationError(last.err) /\ heap = last.pre
           ELSE /\ last.err = NoErr
                /\ heap[last.node].dep = was \cup {key}
                /\ OnlyRegistry("dep")
  /\ last.op = "register_renamed_key" =>
       LET old_name == last.args[1]
           was == last.pre[last.node].ren
           now == heap[last.node].ren
       IN  IF old_name \in DOMAIN was
           THEN IsDuplicateRegistrationError(last.err) /\ heap = last.pre
           ELSE /\ last.err = NoErr
                /\ DOMAIN now = DOMAIN was \cup {old_name}
                /\ \A k \in DOMAIN was : now[k] = was[k]
                /\ now[old_name] = (IF Truthy(last.args[3])
                                    THEN PyTuple(<<PyStr(last.args[2]), last.args[3]>>)
                                    ELSE PyStr(last.args[2]))
                /\ OnlyRegistry("ren")

\* A key renamed to T has been refused a second registration that renames it to A.B
C15_Witness ==
  /\ last.op = "register_renamed_key"
  /\ last.args[1] \in DOMAIN last.pre[last.node].ren
  /\ last.pre[last.node].ren[last.args[1]] = PyStr("T")
  /\ last.args[2] = "A.B"
  /\ IsErr(last.err)

-----------------------------------------------------------------------------
(* C16: in every reachable state, whenever the flag of a node of the tree is
   true, the flag of every node nested below it is true as well.             *)
C16_FrozenNodeHasFrozenSubtree ==
  \A n \in Nodes : is_frozen(heap, n) => \A m \in Reach(heap, n) : is_frozen(heap, m)

-----------------------------------------------------------------------------
\* The pairs of the last override list, by position: key, value and key path
PairCount == Len(last.args[1]) \div 2

KeyOf(n) == last.args[1][2 * n - 1]

ValueOf(n) == last.args[1][2 * n]

\* The pairs whose key the root has registered neither deprecated nor renamed
Live == {n \in 1..PairCount : ~Registered(KeyOf(n))}

\* The live pairs whose dotted path is not a key path of the tree
Missing == {n \in Live : Split(KeyOf(n)) \notin PathsOf(last.pre, Target)}

IsMissingKeyError(e) == IsErr(e) /\ e.exc = "AssertionError" /\ e.msg = "Non-existent key"

\* The override list up to, and without, its n-th pair
PairsBefore(n) == SubSeq(last.args[1], 1, 2 * (n - 1))

(* C17: merge_from_list processes its pairs in list order; a pair that is
   neither deprecated nor renamed changes only the existing leaf at its
   dotted path, to its value reconciled against that leaf, and leaves every
   other key as it was, so the last pair for a key wins; a pair whose path
   does not exist fails with the missing-key error, with the pairs before it
   applied and nothing else changed.                                         *)
C17_ListMergeInOrder ==
  (last.op = "merge_from_list" /\ Len(last.args[1]) % 2 = 0) =>
    /\ last.err = NoErr =>
         /\ PathsOf(heap, Target) = PathsOf(last.pre, Target)
         /\ \A p \in PathsOf(last.pre, Target) :
              LET named == {n \in Live : Split(KeyOf(n)) = p}
                  old == At(last.pre, Target, p)
              IN  IF named = {} THEN At(heap, Target, p) = old
                  ELSE LET n == CHOOSE m \in named : \A k \in named : k <= m
                       IN  At(heap, Target, p) =
                             _check_and_coerce_cfg_value_type(
                               _decode_cfg_value(ValueOf(n)), old, p[Len(p)], KeyOf(n))
    /\ Missing # {} =>
         LET n == CHOOSE m \in Missing : \A k \in Missing : m <= k
             r == merge_from_list(last.pre, last.node, PairsBefore(n))
         IN  /\ IsErr(last.err)
             /\ r.err = NoErr =>
                  /\ IsMissingKeyError(last.err) /\ last.err.key = KeyOf(n)
                  /\ heap = r.h

-----------------------------------------------------------------------------
\* type(v): the exact class of a value
TypeOf(v) == v.t

(* C18: merging preserves types: after a successful merge (tree merge or
   override list) every key path of the target holds a value of exactly the
   type it held before, so no leaf ever changes type.                        *)
C18_MergeKeepsTypes ==
  (last.op \in Merges /\ last.err = NoErr) =>
    \A p \in PathsOf(last.pre, Target) \cap PathsOf(heap, Target) :
      TypeOf(At(heap, Target, p)) = TypeOf(At(last.pre, Target, p))

-----------------------------------------------------------------------------
(* C19: tree merge is idempotent: when merge_from_other_cfg has succeeded,
   merging the same overlay into the same target again succeeds too and
   leaves the target exactly as the first merge left it.                     *)
C19_MergeTwiceSame ==
  (last.op = "merge_from_other_cfg" /\ last.err = NoErr) =>
    LET again == merge_from_other_cfg(heap, last.node, Ref(last.args[1]))
    IN  /\ again.err = NoErr
        /\ again.h = heap
        /\ again.log = last.log

\* {T: [3, 4], S: 7} has been merged onto a tuple T and a string S
C19_Witness ==
  /\ last.op = "merge_from_other_cfg" /\ last.err = NoErr /\ last.node = 1
  /\ <<"T">> \in PathsOf(last.pre, Target)
  /\ At(last.pre, Target, <<"T">>) = Leaf12
  /\ At(heap, Target, <<"T">>) = PyTuple(<<PyInt(3), PyInt(4)>>)
  /\ At(last.pre, Target, <<"S">>) = PyStr("abc")
  /\ At(heap, Target, <<"S">>) = PyStr("7")

====
